---- MODULE Spec2Model ----
(***************************************************************************)
(* ScaffoldML: the configuration-driven preprocessing pipeline builder    *)
(* (DataPreprocessor) and the DataLoader.                                  *)
(*                                                                         *)
(* Conventions of the model.                                               *)
(*  - A Python str is a sequence of tokens in which "." is a token of its  *)
(*    own: "mypkg.Custom" is <<"mypkg", ".", "Custom">>, "" is << >>.      *)
(*  - An Optional value is a set with at most one element: None is {} and  *)
(*    a present value x is {x}.                                            *)
(*  - An exception is a record [type, at]: the Python exception class and  *)
(*    the place that raised it.                                            *)
(***************************************************************************)
EXTENDS Integers, Sequences, FiniteSets, TLC

VARIABLES config, is_fitted, pipeline, last, lastFit,
          file_path, loaded,
          symbolic_name, resolved

ppVars == <<config, is_fitted, pipeline, last, lastFit>>
ldVars == <<file_path, loaded>>
rsVars == <<symbolic_name, resolved>>
vars == <<config, is_fitted, pipeline, last, lastFit, file_path, loaded,
          symbolic_name, resolved>>

---------------------------------------------------------------------------
(* Bounds of the model *)

\* longest declared feature list of a group
MaxFeatures == 2
\* number of distinct contents a data set can have
MaxData == 2
\* most rows a file on disk holds
MaxRows == 1
\* most tokens of a step name given to the resolver
MaxNameLen == 3

---------------------------------------------------------------------------
(* Optional values and strings *)

None == {}
Some(x) == {x}
Get(o) == CHOOSE x \in o : TRUE

Str(tok) == <<tok>>
Dotted(a, b) == <<a, ".", b>>
EmptyStr == << >>

\* truthiness of a str: "" is falsy
Truthy(s) == Len(s) > 0

\* index of the last "." token of s, 0 when there is none
LastDot(s) ==
    LET idx == {i \in 1..Len(s) : s[i] = "."}
    IN IF idx = {} THEN 0 ELSE CHOOSE i \in idx : \A j \in idx : j <= i

---------------------------------------------------------------------------
(* The exceptions the code raises, under the names the design gives them *)

StateError == [type |-> "RuntimeError", at |-> "transform"]
ConfigurationError == [type |-> "ValueError", at |-> "build"]
ResolutionError == [type |-> "ImportError", at |-> "resolve"]
\* importlib.import_module of a relative name without a package: not among
\* the exceptions line 43 catches
RelativeImportError == [type |-> "TypeError", at |-> "resolve"]
InstantiationError == [type |-> "TypeError", at |-> "instantiate"]
\* raised by the column transformer itself (the library), not by this code
LibraryFitError == [type |-> "ValueError", at |-> "pipeline.fit"]
LibraryTransformError == [type |-> "ValueError", at |-> "pipeline.transform"]
LibraryNotFittedError == [type |-> "NotFittedError", at |-> "pipeline.transform"]

---------------------------------------------------------------------------
(* Step Resolver: DataPreprocessor._get_class_from_config *)

SKLEARN_PREPROCESSING == <<"sklearn", ".", "preprocessing">>
SKLEARN_IMPUTE == <<"sklearn", ".", "impute">>
MYPKG == <<"mypkg">>

\* the namespaces searched first, in this order
TrustedModules == <<SKLEARN_PREPROCESSING, SKLEARN_IMPUTE>>

\* the modules importlib.import_module can load
Importable == {SKLEARN_PREPROCESSING, SKLEARN_IMPUTE, MYPKG}

\* the attributes of a loadable module
ModuleAttrs(m) ==
    CASE m = SKLEARN_PREPROCESSING -> {"StandardScaler", "OneHotEncoder", "__doc__"}
      [] m = SKLEARN_IMPUTE -> {"SimpleImputer", "__doc__"}
      [] m = MYPKG -> {"Custom"}
      [] OTHER -> {}

\* hasattr(module, class_name): the whole string is the attribute's name
HasAttr(m, class_name) ==
    /\ m \in Importable
    /\ Len(class_name) = 1
    /\ class_name[1] \in ModuleAttrs(m)

\* the object found: which module it came from and its name
Attr(m, class_name) == [module |-> m, attr |-> class_name[1]]

\* lines 30-36: the first trusted module that has the attribute
TrustedHit(class_name) ==
    LET hits == {i \in 1..Len(TrustedModules) : HasAttr(TrustedModules[i], class_name)}
    IN IF hits = {} THEN 0 ELSE CHOOSE i \in hits : \A j \in hits : i <= j

\* lines 39-44: class_name.rsplit(".", 1), import_module, getattr
DottedImport(class_name) ==
    LET d == LastDot(class_name)
        module_path == SubSeq(class_name, 1, d - 1)
        attr == SubSeq(class_name, d + 1, Len(class_name))
    IN IF d = 0 THEN [err |-> Some(ResolutionError), cls |-> None]
       ELSE IF Len(module_path) > 0 /\ module_path[1] = "."
            THEN [err |-> Some(RelativeImportError), cls |-> None]
       ELSE IF module_path \notin Importable
            THEN [err |-> Some(ResolutionError), cls |-> None]
       ELSE IF ~HasAttr(module_path, attr)
            THEN [err |-> Some(ResolutionError), cls |-> None]
       ELSE [err |-> None, cls |-> Some(Attr(module_path, attr))]

\* class_name is a str here (the None case of line 26 is never passed by
\* _create_step_from_config)
GetClassFromConfig(class_name) ==
    LET h == TrustedHit(class_name)
    IN IF h # 0
       THEN [err |-> None, cls |-> Some(Attr(TrustedModules[h], class_name))]
       ELSE DottedImport(class_name)

---------------------------------------------------------------------------
(* Step Factory: DataPreprocessor._create_step_from_config *)

\* the keyword arguments a resolved object accepts when called; an object
\* that is no class ("__doc__") accepts no call at all
IsClass(cls) == cls.attr # "__doc__"

InitParams(cls) ==
    CASE cls.attr = "SimpleImputer" -> {"strategy"}
      [] cls.attr = "StandardScaler" -> {"with_mean", "with_std"}
      [] cls.attr = "OneHotEncoder" -> {"handle_unknown", "sparse_output"}
      [] OTHER -> {}

\* step_class(**step_kwargs)
Instantiate(cls, step_kwargs) ==
    IF IsClass(cls) /\ step_kwargs \subseteq InitParams(cls)
    THEN [err |-> None, obj |-> Some([cls |-> cls, kwargs |-> step_kwargs])]
    ELSE [err |-> Some(InstantiationError), obj |-> None]

NoStep == [err |-> None, step |-> None]

\* line 75: the step is the label paired with the instance
CreateStepInstantiated(step_name, i) ==
    IF i.err # None
    THEN [err |-> i.err, step |-> None]
    ELSE [err |-> None, step |-> Some(<<step_name, Get(i.obj)>>)]

\* mutant: a name that does not resolve is skipped like an absent one
CreateStepResolved_SkipUnresolved(step_name, r, step_kwargs) ==
    IF r.err # None
    THEN NoStep
    ELSE CreateStepInstantiated(step_name, Instantiate(Get(r.cls), step_kwargs))

\* lines 68-75: r is what the resolver returned or raised
CreateStepResolved(step_name, r, step_kwargs) ==
    IF r.err # None
    THEN [err |-> r.err, step |-> None]
    ELSE CreateStepInstantiated(step_name, Instantiate(Get(r.cls), step_kwargs))

\* lines 64-68: a name that is None or "" is no step
CreateStepNamed(step_name, class_name, step_kwargs) ==
    IF class_name = None \/ ~Truthy(Get(class_name))
    THEN NoStep
    ELSE CreateStepResolved(step_name, GetClassFromConfig(Get(class_name)),
                            step_kwargs)

\* lines 71-73: getattr(step_config, kwargs_attr_name) or {}
StepKwargs(sc, kwargs_attr_name) ==
    IF kwargs_attr_name \in DOMAIN sc /\ sc[kwargs_attr_name] # None
    THEN Get(sc[kwargs_attr_name])
    ELSE {}

\* step_config is Optional: None, or a record of the StepConfig's fields
CreateStepFromConfig(step_name, step_config, config_attr_name, kwargs_attr_name) ==
    IF step_config = None \/ config_attr_name \notin DOMAIN Get(step_config)
    THEN NoStep
    ELSE CreateStepNamed(step_name, Get(step_config)[config_attr_name],
                         StepKwargs(Get(step_config), kwargs_attr_name))

---------------------------------------------------------------------------
(* Column Transformer Builder: DataPreprocessor._build_column_transformer *)

\* Pipeline(steps=steps)
Pipeline(steps) == [steps |-> steps]

\* mutant: the step is put in front of the steps built so far
AppendStep_Front(steps, created) ==
    IF created.step # None THEN <<Get(created.step)>> \o steps ELSE steps

\* the two appends of a loop body: steps is the list built so far
AppendStep(steps, created) ==
    IF created.step # None THEN Append(steps, Get(created.step)) ELSE steps

\* the steps of one feature once both creations have returned
StepsAfterSecond(steps, second_step) ==
    IF second_step.err # None
    THEN [err |-> second_step.err, steps |-> << >>]
    ELSE [err |-> None, steps |-> AppendStep(steps, second_step)]

\* the steps of one feature once the imputer's creation has returned; second
\* is "scaler" in the numerical loop and "encoder" in the categorical one
StepsAfterImputer(step_config, second, imputer_step) ==
    IF imputer_step.err # None
    THEN [err |-> imputer_step.err, steps |-> << >>]
    ELSE StepsAfterSecond(
             AppendStep(<< >>, imputer_step),
             CreateStepFromConfig(second, step_config, second,
                 IF second = "scaler" THEN "scaler_kwargs" ELSE "encoder_kwargs"))

\* the body of a for loop up to its "if steps:" (lines 83-97, 106-126)
FeatureSteps(step_config, second) ==
    StepsAfterImputer(step_config, second,
        CreateStepFromConfig("imputer", step_config, "imputer", "imputer_kwargs"))

\* mutant: the entry is put in front of the list
AppendEntry_Front(transformers, feature, steps) ==
    IF Len(steps) > 0
    THEN <<<<feature, Pipeline(steps), <<feature>>>>>> \o transformers
    ELSE transformers

\* lines 99-101, 128-130: a feature with steps becomes an entry
AppendEntry(transformers, feature, steps) ==
    IF Len(steps) > 0
    THEN Append(transformers, <<feature, Pipeline(steps), <<feature>>>>)
    ELSE transformers

\* one for loop (lines 82-101 or 105-130) from its i-th feature on; s is what
\* the body made of the i-th feature
RECURSIVE FeatureLoop(_, _, _, _, _)
FeatureLoopBody(features, i, step_config, second, transformers, s) ==
    IF s.err # None
    THEN [err |-> s.err, transformers |-> transformers]
    ELSE FeatureLoop(features, i + 1, step_config, second,
                     AppendEntry(transformers, features[i], s.steps))

FeatureLoop(features, i, step_config, second, transformers) ==
    IF i > Len(features)
    THEN [err |-> None, transformers |-> transformers]
    ELSE FeatureLoopBody(features, i, step_config, second, transformers,
                         FeatureSteps(step_config, second))

\* ColumnTransformer(transformers=transformers, remainder="drop"), not yet fit
ColumnTransformer(transformers) ==
    [transformers |-> transformers, remainder |-> "drop", fitted |-> None]

\* mutant: the check for an empty list of entries is missing
BuildFinish_NoEmptyCheck(cat) ==
    IF cat.err # None
    THEN [err |-> cat.err, ct |-> None]
    ELSE [err |-> None, ct |-> Some(ColumnTransformer(cat.transformers))]

\* lines 132-135
BuildFinish(cat) ==
    IF cat.err # None
    THEN [err |-> cat.err, ct |-> None]
    ELSE IF Len(cat.transformers) = 0
         THEN [err |-> Some(ConfigurationError), ct |-> None]
         ELSE [err |-> None, ct |-> Some(ColumnTransformer(cat.transformers))]

\* lines 103-135: num is what the numerical loop left
BuildCategorical(cfg, num) ==
    IF num.err # None
    THEN [err |-> num.err, ct |-> None]
    ELSE BuildFinish(FeatureLoop(cfg.features.categorical, 1,
                                 cfg.steps.categorical, "encoder",
                                 num.transformers))

BuildColumnTransformer(cfg) ==
    BuildCategorical(cfg, FeatureLoop(cfg.features.numerical, 1,
                                      cfg.steps.numerical, "scaler", << >>))

---------------------------------------------------------------------------
(* The column transformer's own fit and transform (the library called at   *)
(* lines 139 and 148). A data set is [cols, id]: the columns it has and    *)
(* which content it holds. What a fit learns is a function of the content  *)
(* of the columns it is given; a column an entry names and the data lacks  *)
(* makes the call raise.                                                   *)

AllColumns == {"Col_0", "Col_1", "city"}

Data == {[cols |-> c, id |-> i] : c \in {AllColumns, AllColumns \ {"Col_0"}},
                                  i \in 1..MaxData}

SourceColumns(ct) == {ct.transformers[k][3][1] : k \in 1..Len(ct.transformers)}

PipelineFit(ct, X) ==
    IF SourceColumns(ct) \subseteq X.cols
    THEN [err |-> None, ct |-> [ct EXCEPT !.fitted = Some(X.id)]]
    ELSE [err |-> Some(LibraryFitError), ct |-> ct]

\* the output matrix: one block of columns per entry, in entry order; a block
\* is the entry's column of X passed through the entry's steps as fit
Block(entry, learned, X) ==
    [feature |-> entry[1],
     steps |-> entry[2].steps,
     learned_from |-> learned,
     input |-> X.id]

\* a transformer whose fit never returned has nothing learned to apply: the
\* call raises, whatever the data
PipelineTransform(ct, X) ==
    IF ct.fitted = None
    THEN [err |-> Some(LibraryNotFittedError), out |-> None]
    ELSE IF ~(SourceColumns(ct) \subseteq X.cols)
         THEN [err |-> Some(LibraryTransformError), out |-> None]
         ELSE [err |-> None,
               out |-> Some([k \in 1..Len(ct.transformers) |->
                               Block(ct.transformers[k], Get(ct.fitted), X)])]

---------------------------------------------------------------------------
(* Preprocessor facade: __init__, fit, transform, fit_transform.           *)
(* p is the object's state [is_fitted, pipeline]; pipeline is None while   *)
(* the attribute has never been assigned.                                  *)

NewPreprocessor == [is_fitted |-> FALSE, pipeline |-> None]

\* mutant: the flag is set before pipeline.fit is called
FitStored_FlagFirst(p, f) ==
    [p |-> [is_fitted |-> TRUE, pipeline |-> Some(f.ct)], err |-> f.err,
     out |-> None, calls |-> <<"fit">>]

\* lines 139-141: f is what pipeline.fit returned or raised, on the
\* transformer line 138 has already stored
FitStored(p, f) ==
    IF f.err # None
    THEN [p |-> [p EXCEPT !.pipeline = Some(f.ct)], err |-> f.err,
          out |-> None, calls |-> <<"fit">>]
    ELSE [p |-> [is_fitted |-> TRUE, pipeline |-> Some(f.ct)], err |-> None,
          out |-> None, calls |-> <<"fit">>]

\* lines 138-141: b is what _build_column_transformer returned or raised
FitBuilt(p, X, b) ==
    IF b.err # None
    THEN [p |-> p, err |-> b.err, out |-> None, calls |-> <<"fit">>]
    ELSE FitStored(p, PipelineFit(Get(b.ct), X))

FitOp(cfg, p, X) == FitBuilt(p, X, BuildColumnTransformer(cfg))

\* line 148
TransformFitted(p, t) ==
    [p |-> p, err |-> t.err, out |-> t.out, calls |-> <<"transform">>]

TransformOp(p, X) ==
    IF ~p.is_fitted
    THEN [p |-> p, err |-> Some(StateError), out |-> None,
          calls |-> <<"transform">>]
    ELSE TransformFitted(p, PipelineTransform(Get(p.pipeline), X))

\* line 152: t is what self.transform(X) returned or raised
FitTransformReturn(f, t) ==
    [p |-> t.p, err |-> t.err, out |-> t.out, calls |-> f.calls \o t.calls]

\* lines 151-152: f is what self.fit(X, y) returned or raised
FitTransformFitted(X, f) ==
    IF f.err # None THEN f ELSE FitTransformReturn(f, TransformOp(f.p, X))

\* mutant: a preprocessor that is already fitted is not fit again
FitTransformOp_SkipFitWhenFitted(cfg, p, X) ==
    IF p.is_fitted
    THEN FitTransformReturn([calls |-> <<"fit">>], TransformOp(p, X))
    ELSE FitTransformFitted(X, FitOp(cfg, p, X))

FitTransformOp(cfg, p, X) == FitTransformFitted(X, FitOp(cfg, p, X))

---------------------------------------------------------------------------
(* DataLoader. A path argument is [type, name, exists, rows]: the Python   *)
(* type of the value, the file name as a str, whether the file is on disk  *)
(* and how many rows it holds.                                             *)

\* error_messages.SUPPORTED_FILE_EXTENSIONS, as the tests print it
SUPPORTED_FILE_EXTENSIONS == {<<".", "csv">>, <<".", "parquet">>}

\* data_reader_funtions: the reader registered under each key
data_reader_funtions ==
    [k \in {<<"csv">>, <<"parquet">>} |->
        IF k = <<"csv">> THEN "pd.read_csv" ELSE "pd.read_parquet"]

PathTypeError == [type |-> "TypeError", at |-> "_validate_file_path"]
FileNotFoundError == [type |-> "FileNotFoundError", at |-> "_validate_file_path"]
OsPathAttributeError == [type |-> "AttributeError", at |-> "_validate_file_path"]
UnsupportedFormatError ==
    [type |-> "ValueError", at |-> "_check_if_file_extension_supported"]
ReaderNotCallable == [type |-> "TypeError", at |-> "load_data"]
EmptyDataError == [type |-> "ValueError", at |-> "load_data"]

\* Path(file_path).suffix: from the last "." of the name on, or "" when the
\* name has no "." or only a leading or a trailing one
Suffix(name) ==
    LET d == LastDot(name)
    IN IF d > 1 /\ d < Len(name) THEN SubSeq(name, d, Len(name)) ELSE EmptyStr

\* line 32 passes for str and Path; line 36 then evaluates os.Path, which the
\* os module does not have
OsPath(fp) == [err |-> Some(OsPathAttributeError), exists |-> fp.exists]

ValidateFilePath(fp) ==
    IF fp.type \notin {"str", "Path"}
    THEN Some(PathTypeError)
    ELSE LET path == OsPath(fp)
         IN IF path.err # None
            THEN path.err
            ELSE IF ~path.exists THEN Some(FileNotFoundError) ELSE None

CheckIfFileExtensionSupported(fp) ==
    LET ext == Suffix(fp.name)
    IN IF ext \notin SUPPORTED_FILE_EXTENSIONS
       THEN [err |-> Some(UnsupportedFormatError), ext |-> None]
       ELSE [err |-> None, ext |-> Some(ext)]

\* reader_func(file_path): the data set the reader makes of the file
ReadFile(reader_func, fp) == [reader |-> reader_func, rows |-> fp.rows]

LoadData(fp) ==
    LET v == ValidateFilePath(fp)
    IN IF v # None
       THEN [err |-> v, data |-> None]
       ELSE LET c == CheckIfFileExtensionSupported(fp)
            IN IF c.err # None
               THEN [err |-> c.err, data |-> None]
               ELSE LET ext == Get(c.ext)
                    IN IF ext \notin DOMAIN data_reader_funtions
                       THEN [err |-> Some(ReaderNotCallable), data |-> None]
                       ELSE LET data == ReadFile(data_reader_funtions[ext], fp)
                            IN IF data.rows = 0
                               THEN [err |-> Some(EmptyDataError), data |-> None]
                               ELSE [err |-> None, data |-> Some(data)]

---------------------------------------------------------------------------
(* The configurations and path arguments the model draws its inputs from *)

NumericalPool == {"Col_0", "Col_1"}
CategoricalPool == {"city", "Col_0"}

\* the lists of at most MaxFeatures distinct names of a pool
FeatureLists(pool) ==
    {f \in UNION {[1..n -> pool] : n \in 0..MaxFeatures} :
        \A i, j \in 1..Len(f) : f[i] = f[j] => i = j}

ImputerNames == {None, Some(EmptyStr), Some(Str("SimpleImputer")),
                 Some(Dotted("mypkg", "Custom")), Some(Str("Bogus"))}
ScalerNames == {None, Some(Str("StandardScaler")), Some(Dotted("nomod", "Scaler"))}
EncoderNames == {None, Some(Str("OneHotEncoder")), Some(Dotted("mypkg", "Missing"))}
ImputerKwargs == {None, Some({"strategy"})}

NumericalStepsConfigs ==
    {None} \cup
    {Some([imputer |-> i, scaler |-> s, imputer_kwargs |-> k,
           scaler_kwargs |-> Some({})]) :
        i \in ImputerNames, s \in ScalerNames, k \in ImputerKwargs}

CategoricalStepsConfigs ==
    {None} \cup
    {Some([imputer |-> i, encoder |-> e, imputer_kwargs |-> k,
           encoder_kwargs |-> Some({})]) :
        i \in ImputerNames, e \in EncoderNames, k \in ImputerKwargs}

PreprocessorConfigs ==
    {[features |-> [numerical |-> n, categorical |-> c],
      steps |-> [numerical |-> ns, categorical |-> cs]] :
        n \in FeatureLists(NumericalPool), c \in FeatureLists(CategoricalPool),
        ns \in NumericalStepsConfigs, cs \in CategoricalStepsConfigs}

\* the configurations the lifecycle is run on: default imputer arguments in
\* the numerical group, and a categorical group that is absent or imputes and
\* encodes
LifecycleConfigs ==
    {c \in PreprocessorConfigs :
        /\ c.steps.numerical # None => Get(c.steps.numerical).imputer_kwargs = None
        /\ c.steps.categorical # None =>
              /\ Get(c.steps.categorical).imputer = Some(Str("SimpleImputer"))
              /\ Get(c.steps.categorical).encoder = Some(Str("OneHotEncoder"))
              /\ Get(c.steps.categorical).imputer_kwargs = Some({"strategy"})}

FileNames == {<<"test", ".", "csv">>, <<"test", ".", "parquet">>,
              <<"test", ".", "parquet", ".", "csv">>, <<"test", ".", "txt">>,
              <<"test">>, <<".", "csv">>, <<"test", ".">>}

\* the tokens step names are made of, and the names of at most MaxNameLen
\* tokens
NameTokens == {".", "sklearn", "impute", "mypkg", "Custom", "SimpleImputer",
               "StandardScaler", "__doc__"}

StepNames == UNION {[1..n -> NameTokens] : n \in 0..MaxNameLen}

PathArguments ==
    [type : {"str", "Path", "int"}, name : FileNames, exists : BOOLEAN,
     rows : 0..MaxRows]

---------------------------------------------------------------------------
(* State machine. last is the most recent call on the preprocessor with    *)
(* what it raised or returned; lastFit is the data of the most recent fit  *)
(* that returned normally; loaded is the same record for the loader.       *)

NoCall == [op |-> "none", X |-> None, err |-> None, out |-> None, calls |-> << >>]
NoLoad == [op |-> "none", err |-> None, value |-> None]
NoResolve == [op |-> "none", err |-> None, cls |-> None]
DefaultConfig == CHOOSE c \in LifecycleConfigs : TRUE

InitPreprocessor ==
    /\ is_fitted = NewPreprocessor.is_fitted
    /\ pipeline = NewPreprocessor.pipeline
    /\ last = NoCall
    /\ lastFit = None

InitLoaderIdle ==
    /\ file_path = None
    /\ loaded = NoLoad
    /\ symbolic_name = None
    /\ resolved = NoResolve

Init ==
    /\ config \in LifecycleConfigs
    /\ InitPreprocessor
    /\ InitLoaderIdle

InitBuild ==
    /\ config \in PreprocessorConfigs
    /\ InitPreprocessor
    /\ InitLoaderIdle

InitLoader ==
    /\ config = DefaultConfig
    /\ InitPreprocessor
    /\ InitLoaderIdle

InitResolver ==
    /\ config = DefaultConfig
    /\ InitPreprocessor
    /\ file_path = None
    /\ loaded = NoLoad
    /\ symbolic_name \in {Some(n) : n \in StepNames}
    /\ resolved = NoResolve

Self == [is_fitted |-> is_fitted, pipeline |-> pipeline]

\* a call of op with argument X that ended as r
Returns(op, X, r) ==
    /\ is_fitted' = r.p.is_fitted
    /\ pipeline' = r.p.pipeline
    /\ last' = [op |-> op, X |-> Some(X), err |-> r.err, out |-> r.out,
                calls |-> r.calls]
    /\ lastFit' = IF r.calls[1] = "fit" /\ (r.err = None \/ Len(r.calls) > 1)
                  THEN Some(X) ELSE lastFit

Fit(X) ==
    /\ Returns("fit", X, FitOp(config, Self, X))
    /\ UNCHANGED <<config, file_path, loaded, symbolic_name, resolved>>

Transform(X) ==
    /\ Returns("transform", X, TransformOp(Self, X))
    /\ UNCHANGED <<config, file_path, loaded, symbolic_name, resolved>>

FitTransform(X) ==
    /\ Returns("fit_transform", X, FitTransformOp(config, Self, X))
    /\ UNCHANGED <<config, file_path, loaded, symbolic_name, resolved>>

LoadDataCall(fp) ==
    /\ file_path' = Some(fp)
    /\ loaded' = LET r == LoadData(fp)
                 IN [op |-> "load_data", err |-> r.err, value |-> r.data]
    /\ UNCHANGED <<ppVars, rsVars>>

ValidateFilePathCall(fp) ==
    /\ file_path' = Some(fp)
    /\ loaded' = [op |-> "_validate_file_path", err |-> ValidateFilePath(fp),
                  value |-> None]
    /\ UNCHANGED <<ppVars, rsVars>>

CheckExtensionCall(fp) ==
    /\ file_path' = Some(fp)
    /\ loaded' = LET r == CheckIfFileExtensionSupported(fp)
                 IN [op |-> "_check_if_file_extension_supported", err |-> r.err,
                     value |-> r.ext]
    /\ UNCHANGED <<ppVars, rsVars>>

Next ==
    \/ \E X \in Data : Fit(X)
    \/ \E X \in Data : Transform(X)
    \/ \E X \in Data : FitTransform(X)

NextBuild == \E X \in Data : Fit(X)

\* what a call of _get_class_from_config returned or raised
Resolved(r) == [op |-> "_get_class_from_config", err |-> r.err, cls |-> r.cls]

\* the call of _get_class_from_config on the symbolic name at hand
GetClassFromConfigCall ==
    /\ symbolic_name # None
    /\ resolved.op = "none"
    /\ resolved' = Resolved(GetClassFromConfig(Get(symbolic_name)))
    /\ UNCHANGED <<ppVars, ldVars, symbolic_name>>

NextResolver == GetClassFromConfigCall

NextLoader ==
    \/ \E fp \in PathArguments : LoadDataCall(fp)
    \/ \E fp \in PathArguments : ValidateFilePathCall(fp)
    \/ \E fp \in PathArguments : CheckExtensionCall(fp)

Spec == Init /\ [][Next]_vars
BuildSpec == InitBuild /\ [][NextBuild]_vars
LoaderSpec == InitLoader /\ [][NextLoader]_vars
ResolverSpec == InitResolver /\ [][NextResolver]_vars

---------------------------------------------------------------------------
(* What the claims speak of, stated from the configuration alone *)

\* a step name that is present and non-empty
Configured(name) == name # None /\ Truthy(Get(name))

\* the group's StepConfig exists and names at least one of its two steps
GroupConfigured(step_config, second) ==
    /\ step_config # None
    /\ \/ Configured(Get(step_config).imputer)
       \/ Configured(Get(step_config)[second])

\* the features that are to get an entry, in the order the entries are to have
ExpectedFeatures(cfg) ==
    (IF GroupConfigured(cfg.steps.numerical, "scaler")
     THEN cfg.features.numerical ELSE << >>)
    \o (IF GroupConfigured(cfg.steps.categorical, "encoder")
        THEN cfg.features.categorical ELSE << >>)

\* the step names the build comes to, in the order it comes to them: a group
\* without declared features is never looked at
AttemptedSteps(cfg) ==
    LET of(features, step_config, second) ==
            IF Len(features) = 0 \/ step_config = None THEN << >>
            ELSE LET sc == Get(step_config)
                 IN (IF Configured(sc.imputer)
                     THEN <<[name |-> Get(sc.imputer),
                             kwargs |-> IF sc.imputer_kwargs = None THEN {}
                                        ELSE Get(sc.imputer_kwargs)]>>
                     ELSE << >>)
                    \o (IF Configured(sc[second])
                        THEN <<[name |-> Get(sc[second]),
                                kwargs |-> LET k == IF second = "scaler"
                                                    THEN sc.scaler_kwargs
                                                    ELSE sc.encoder_kwargs
                                           IN IF k = None THEN {} ELSE Get(k)]>>
                        ELSE << >>)
    IN of(cfg.features.numerical, cfg.steps.numerical, "scaler")
       \o of(cfg.features.categorical, cfg.steps.categorical, "encoder")

\* the resolver fails on the name with ResolutionError
Unresolvable(name) == GetClassFromConfig(name).err = Some(ResolutionError)

\* creating the step raises something else: the resolver's TypeError for a
\* relative name, or the resolved object rejects the call
Rejected(step) ==
    IF GetClassFromConfig(step.name).err # None
    THEN ~Unresolvable(step.name)
    ELSE Instantiate(Get(GetClassFromConfig(step.name).cls), step.kwargs).err # None

\* some configured step name of the configuration cannot be resolved
SomeNameUnresolvable(cfg) ==
    \/ /\ cfg.steps.numerical # None
       /\ \E f \in {"imputer", "scaler"} :
             /\ Configured(Get(cfg.steps.numerical)[f])
             /\ Unresolvable(Get(Get(cfg.steps.numerical)[f]))
    \/ /\ cfg.steps.categorical # None
       /\ \E f \in {"imputer", "encoder"} :
             /\ Configured(Get(cfg.steps.categorical)[f])
             /\ Unresolvable(Get(Get(cfg.steps.categorical)[f]))

\* the build comes to an unresolvable name before any step raises otherwise
UnresolvableReached(cfg) ==
    LET a == AttemptedSteps(cfg)
    IN \E i \in 1..Len(a) :
          /\ Unresolvable(a[i].name)
          /\ \A j \in 1..(i - 1) : ~Rejected(a[j])

\* the steps a feature of the group is to get: the configured ones under
\* their labels, the imputer first
ExpectedSteps(step_config, second) ==
    LET sc == Get(step_config)
        made(label, kwargs) ==
            <<label, [cls |-> Get(GetClassFromConfig(Get(sc[label])).cls),
                      kwargs |-> IF kwargs = None THEN {} ELSE Get(kwargs)]>>
    IN (IF Configured(sc.imputer)
        THEN <<made("imputer", sc.imputer_kwargs)>> ELSE << >>)
       \o (IF Configured(sc[second])
           THEN <<made(second, IF second = "scaler" THEN sc.scaler_kwargs
                               ELSE sc.encoder_kwargs)>>
           ELSE << >>)

\* the number of entries that come from numerical features
NumericalEntries(cfg) ==
    IF GroupConfigured(cfg.steps.numerical, "scaler")
    THEN Len(cfg.features.numerical) ELSE 0

\* the steps the k-th entry is to have
ExpectedStepsOfEntry(cfg, k) ==
    IF k <= NumericalEntries(cfg)
    THEN ExpectedSteps(cfg.steps.numerical, "scaler")
    ELSE ExpectedSteps(cfg.steps.categorical, "encoder")

\* every step the build comes to resolves and accepts its arguments
AllAttemptedStepsCreated(cfg) ==
    \A i \in 1..Len(AttemptedSteps(cfg)) :
        /\ GetClassFromConfig(AttemptedSteps(cfg)[i].name).err = None
        /\ ~Rejected(AttemptedSteps(cfg)[i])

---------------------------------------------------------------------------
(* Claims *)

\* C1: on a preprocessor no fit has succeeded on, transform of any data
\* fails with StateError and returns no output, whatever transform calls and
\* failed fit calls came before.
C1_TransformBeforeFit ==
    (last.op = "transform" /\ lastFit = None) =>
        /\ last.err = Some(StateError)
        /\ last.out = None

\* transform is refused although a failed fit has left a transformer behind
C1_Witness ==
    /\ last.op = "transform"
    /\ lastFit = None
    /\ pipeline # None
    /\ last.err = Some(StateError)

\* C2: in every reachable state the is-fitted flag is true if and only if
\* the transformer the preprocessor holds has been fit on data.
C2_FlagIffHeldTransformerFit ==
    is_fitted <=> (pipeline # None /\ Get(pipeline).fitted # None)

\* C3: a fit call that fails leaves the is-fitted flag and the transformer
\* held as they were before the call.
C3_FailedFitLeavesStateAlone ==
    [][(last'.op = "fit" /\ last'.err # None) =>
          (is_fitted' = is_fitted /\ pipeline' = pipeline)]_vars

\* C4: the built column transformer has one entry per declared feature whose
\* group has a configured step and no other, numerical entries first, each
\* group in declared order, each entry (feature, sub-pipeline, [feature]).
C4_EntriesPerFeatureInOrder ==
    (last.op = "fit" /\ pipeline # None) =>
        LET t == Get(pipeline).transformers
            e == ExpectedFeatures(config)
        IN /\ Len(t) = Len(e)
           /\ \A k \in 1..Len(t) :
                 /\ t[k][1] = e[k]
                 /\ t[k][3] = <<e[k]>>
                 /\ Len(t[k][2].steps) > 0

\* both groups contribute, two features each, one feature in both groups
C4_Witness ==
    /\ last.op = "fit"
    /\ pipeline # None
    /\ Len(Get(pipeline).transformers) = 4
    /\ Len(config.features.numerical) = 2
    /\ Get(pipeline).transformers[3][1] = "Col_0"

\* C5: a configuration that yields no entry makes the build fail with
\* ConfigurationError, and no empty transformer is ever built or stored.
C5_ZeroEntriesIsConfigurationError ==
    /\ (last.op = "fit" /\ ExpectedFeatures(config) = << >>) =>
          /\ last.err = Some(ConfigurationError)
          /\ pipeline = None
          /\ ~is_fitted
    /\ pipeline # None => Len(Get(pipeline).transformers) > 0

\* features are declared, but their group names no step
C5_Witness ==
    /\ last.op = "fit"
    /\ ExpectedFeatures(config) = << >>
    /\ Len(config.features.numerical) > 0
    /\ config.steps.numerical # None
    /\ Len(config.features.categorical) > 0
    /\ last.err = Some(ConfigurationError)

\* C6: fit_transform(data) gives the output and final state of fit(data)
\* then transform(data) on a fresh preprocessor of the same configuration;
\* when fit fails it fails with fit's error and transform is not called.
C6_FitTransformIsFitThenTransform ==
    last.op = "fit_transform" =>
        LET X == Get(last.X)
            f == FitOp(config, NewPreprocessor, X)
            t == TransformOp(f.p, X)
        IN IF f.err # None
           THEN /\ last.err = f.err
                /\ last.out = None
                /\ last.calls = <<"fit">>
           ELSE /\ last.err = t.err
                /\ last.out = t.out
                /\ last.calls = <<"fit", "transform">>
                /\ Self = t.p

\* fit_transform returned a matrix of several blocks
C6_Witness ==
    /\ last.op = "fit_transform"
    /\ last.out # None
    /\ Len(Get(last.out)) >= 2
    /\ is_fitted

\* C7: every transform on a fitted preprocessor gives what a transformer
\* built from the configuration and fit only on the data of the most recent
\* successful fit gives.
C7_TransformDependsOnLastFitOnly ==
    (last.op = "transform" /\ lastFit # None) =>
        LET f == FitOp(config, NewPreprocessor, Get(lastFit))
            t == TransformOp(f.p, Get(last.X))
        IN /\ last.err = t.err
           /\ last.out = t.out

\* C8: load_data of an existing str or Path ending in .csv or .parquet
\* returns what the reader registered for the extension made of the file, or
\* fails with EmptyDataError when the file has no rows.
C8_LoadDataDispatchesOnExtension ==
    (/\ loaded.op = "load_data"
     /\ Get(file_path).type \in {"str", "Path"}
     /\ Get(file_path).exists
     /\ Suffix(Get(file_path).name) \in {<<".", "csv">>, <<".", "parquet">>}) =>
        IF Get(file_path).rows = 0
        THEN loaded.err = Some(EmptyDataError)
        ELSE /\ loaded.err = None
             /\ loaded.value =
                   Some([reader |-> IF Suffix(Get(file_path).name) = <<".", "csv">>
                                    THEN "pd.read_csv" ELSE "pd.read_parquet",
                         rows |-> Get(file_path).rows])

\* C9: path validation fails with PathTypeError for a value that is neither
\* str nor Path, with FileNotFoundError for a str or Path that is not on
\* disk, and returns normally for one that is.
C9_ValidateFilePath ==
    loaded.op = "_validate_file_path" =>
        LET fp == Get(file_path)
        IN IF fp.type \notin {"str", "Path"}
           THEN loaded.err = Some(PathTypeError)
           ELSE IF ~fp.exists
                THEN loaded.err = Some(FileNotFoundError)
                ELSE loaded.err = None

\* C10 as stated: whenever some configured step name cannot be resolved, fit
\* fails with ResolutionError before a transformer is built or fit.
C10_AnyUnresolvableNameFailsFit ==
    (last.op = "fit" /\ SomeNameUnresolvable(config)) =>
        /\ last.err = Some(ResolutionError)
        /\ pipeline = None

\* C10 as amended: when the build comes to a step name the resolver fails on
\* with ResolutionError (its group declares a feature) before any step raises
\* another error, fit fails with ResolutionError and no transformer is built,
\* stored or fit.
C10_ReachedUnresolvableNameFailsFit ==
    (last.op = "fit" /\ UnresolvableReached(config)) =>
        /\ last.err = Some(ResolutionError)
        /\ pipeline = None
        /\ ~is_fitted
        /\ lastFit = None

\* the numerical group builds; the unresolvable name is the categorical encoder
C10_Witness ==
    /\ last.op = "fit"
    /\ UnresolvableReached(config)
    /\ GroupConfigured(config.steps.numerical, "scaler")
    /\ Len(config.features.numerical) > 0
    /\ ~SomeNameUnresolvable([config EXCEPT !.steps.categorical = None])
    /\ last.err = Some(ResolutionError)

\* C11: the resolver returns the attribute of the exact name from the first
\* trusted namespace that has it; failing that, the named attribute of the
\* module of a dotted module.ClassName path; in every other case it fails
\* with ResolutionError and returns nothing.
C11_ResolverOrderAndFailure ==
    resolved.op = "_get_class_from_config" =>
        LET n == Get(symbolic_name)
            whole == IF Len(n) = 1 THEN {n[1]} ELSE {}
            dotted == {mc \in [module : Importable, attr : NameTokens] :
                          /\ mc.attr \in ModuleAttrs(mc.module)
                          /\ n = mc.module \o <<".", mc.attr>>}
        IN IF whole \cap ModuleAttrs(SKLEARN_PREPROCESSING) # {}
           THEN /\ resolved.err = None
                /\ resolved.cls = Some([module |-> SKLEARN_PREPROCESSING,
                                        attr |-> n[1]])
           ELSE IF whole \cap ModuleAttrs(SKLEARN_IMPUTE) # {}
           THEN /\ resolved.err = None
                /\ resolved.cls = Some([module |-> SKLEARN_IMPUTE, attr |-> n[1]])
           ELSE IF dotted # {}
           THEN /\ resolved.err = None
                /\ resolved.cls = dotted
           ELSE /\ resolved.err = Some(ResolutionError)
                /\ resolved.cls = None

\* C12: every sub-pipeline holds exactly the configured steps of its
\* feature's group under the labels imputer, scaler, encoder, the imputer
\* first; an absent or empty name skips the step without an error, and what
\* transform returns for the feature has gone through those steps only.
C12_SubPipelineStepsAndOrder ==
    /\ (last.op = "fit" /\ pipeline # None) =>
          \A k \in 1..Len(Get(pipeline).transformers) :
             Get(pipeline).transformers[k][2].steps
                = ExpectedStepsOfEntry(config, k)
    /\ (last.op = "fit" /\ ExpectedFeatures(config) # << >>
          /\ AllAttemptedStepsCreated(config)) =>
          /\ pipeline # None
          /\ last.err \in {None, Some(LibraryFitError)}
    /\ (last.op = "fit" /\ is_fitted) =>
          \A X \in Data :
             LET t == TransformOp(Self, X)
             IN t.out # None =>
                   \A k \in 1..Len(Get(t.out)) :
                      Get(t.out)[k].steps = ExpectedStepsOfEntry(config, k)

\* numerical features are imputed and not scaled (the scaler is absent),
\* categorical ones are encoded and not imputed (the imputer is "")
C12_Witness ==
    /\ last.op = "fit"
    /\ is_fitted
    /\ Len(config.features.numerical) > 0
    /\ Len(config.features.categorical) > 0
    /\ config.steps.numerical # None
    /\ config.steps.categorical # None
    /\ Get(config.steps.numerical).imputer = Some(Str("SimpleImputer"))
    /\ Get(config.steps.numerical).scaler = None
    /\ Get(config.steps.categorical).imputer = Some(EmptyStr)
    /\ Get(config.steps.categorical).encoder = Some(Str("OneHotEncoder"))
    /\ Len(Get(pipeline).transformers[1][2].steps) = 1

====
